---- MODULE Spec2Model ----
(***************************************************************************)
(* Model of package reversehttp (crewjam/reversehttp).                      *)
(*                                                                         *)
(* A Server answers long polls (ServeHTTP), one goroutine per inbound      *)
(* POST.  A Session is the rendezvous between originators calling          *)
(* Session.RoundTrip and the poll handler.  ConnectAndServe is the         *)
(* polling loop of the reverse client.  Goroutines are interleaved at      *)
(* their blocking points and at their accesses to shared state.            *)
(***************************************************************************)
EXTENDS Integers, Sequences, FiniteSets, TLC

\* ---------------------------------------------------------------- bounds
MaxSessions == 2     \* session objects the server may mint
MaxCalls == 2        \* Session.RoundTrip invocations made by originators
MaxClosers == 1      \* explicit Session.Close() invocations by originators
MaxScriptLen == 3    \* calls a handler makes on its ResponseWriter

Sessions == 1..MaxSessions
Calls == 1..MaxCalls
Closers == 1..MaxClosers
Clients == {"c1"}    \* ConnectAndServe loops, one outstanding POST each
Testers == {"t1", "t2"}  \* pollers that POST by hand, as TestBadTimeoutValues does
TimeoutTesters == {"t1"} \* the poller of TestBadTimeoutValues
Pollers == Clients \cup Testers

NoSession == 0       \* empty X-Session header / nil *Session
Nil == 0             \* nil *Request

\* ------------------------------------------------------- program constants
StatusOK == 200
StatusNoContent == 204
StatusBadRequest == 400
StatusGone == 410
StatusTeapot == 418

ErrSessionClosed == "session closed"
ErrNone == "nil"
ErrDecode == "decode"
ErrWrite == "write"
ErrTransport == "transport"
ErrStatus == "status"

\* ------------------------------------------------------------ envelope codec
\* A serialized HTTP message is a sequence of wire items [t, n].
Item(t, n) == [t |-> t, n |-> n]

\* An originator's request: net/http.Request.Write emits request line,
\* header block terminator and body.  The body of call c's request is c.
HTTPRequest(c) == [method |-> "FROB", body |-> c]

WriteRequest(r) ==
    << Item("request-line", 0), Item("blank", 0), Item("body", r.body) >>

\* What reaches the peer when Request.Write fails after n items: inside the
\* header block (n = 1) or while copying the body (n = 2).
TruncatedRequest(r, n) == SubSeq(WriteRequest(r), 1, n)

\* net/http.ReadRequest on the body of a 200 poll answer: the request line and
\* the header block must be complete; the body is read later, by the handler.
ReadRequest(wire) ==
    IF Len(wire) >= 2 /\ wire[1].t = "request-line" /\ wire[2].t = "blank"
    THEN [ok |-> TRUE, body |-> IF Len(wire) >= 3 THEN wire[3].n ELSE 0]
    ELSE [ok |-> FALSE, body |-> 0]

\* ResponseWriter{w, header, headerSent}
NewResponseWriter == [w |-> << >>, header |-> << >>, headerSent |-> FALSE]

\* ResponseWriter.Header().Add(k, ...)
RWHeaderAdd(rw, k) == [rw EXCEPT !.header = Append(@, k)]

\* WriteHeader without the test of headerSent.
RWWriteHeaderUnguarded(rw, statusCode) ==
    [rw EXCEPT
        !.w = @ \o << Item("status", statusCode) >>
                \o [i \in 1..Len(rw.header) |-> Item("header", rw.header[i])]
                \o << Item("blank", 0) >>,
        !.headerSent = TRUE]

\* ResponseWriter.WriteHeader
RWWriteHeader(rw, statusCode) ==
    IF ~rw.headerSent
    THEN [rw EXCEPT
            !.w = @ \o << Item("status", statusCode) >>
                    \o [i \in 1..Len(rw.header) |-> Item("header", rw.header[i])]
                    \o << Item("blank", 0) >>,
            !.headerSent = TRUE]
    ELSE rw

\* ResponseWriter.Write
RWWrite(rw, b) ==
    LET rw1 == IF ~rw.headerSent THEN RWWriteHeader(rw, StatusOK) ELSE rw
    IN  [rw1 EXCEPT !.w = Append(@, Item("body", b))]

\* One call a handler makes on its ResponseWriter.
RWCall(rw, call) ==
    CASE call.op = "Header"      -> RWHeaderAdd(rw, call.arg)
      [] call.op = "WriteHeader" -> RWWriteHeader(rw, call.arg)
      [] call.op = "Write"       -> RWWrite(rw, call.arg)

RECURSIVE RunHandler(_, _)
RunHandler(rw, script) ==
    IF script = << >> THEN rw
    ELSE RunHandler(RWCall(rw, Head(script)), Tail(script))

Call(op, arg) == [op |-> op, arg |-> arg]

\* The local handlers of the tests, as the calls they make for a request
\* whose body is b: one that never writes, one that echoes the body with a
\* header (TestFunctionality), one that answers 418 (TestHandlerError).
HandlerScripts(b) ==
    { << >>,
      << Call("Header", 1), Call("Write", b) >>,
      << Call("WriteHeader", StatusTeapot), Call("Write", b) >> }

\* Positions of body items in a wire message, in order.
RECURSIVE BodyOf(_)
BodyOf(wire) ==
    IF wire = << >> THEN << >>
    ELSE IF Head(wire).t = "body" THEN << Head(wire).n >> \o BodyOf(Tail(wire))
    ELSE BodyOf(Tail(wire))

RECURSIVE BlankAt(_, _)
BlankAt(wire, i) ==
    IF i > Len(wire) THEN 0
    ELSE IF wire[i].t = "blank" THEN i
    ELSE IF wire[i].t = "header" THEN BlankAt(wire, i + 1)
    ELSE 0

\* ReadResponse that never reads the status code off the status line.
ReadResponseStatusDropped(wire) ==
    IF Len(wire) >= 2 /\ wire[1].t = "status" /\ BlankAt(wire, 2) > 0
    THEN [ok |-> TRUE, status |-> StatusOK,
          header |-> [i \in 1..(BlankAt(wire, 2) - 2) |-> wire[i + 1].n],
          body |-> BodyOf(SubSeq(wire, BlankAt(wire, 2) + 1, Len(wire)))]
    ELSE [ok |-> FALSE, status |-> 0, header |-> << >>, body |-> << >>]

\* net/http.ReadResponse on a poll body: status line, header block, blank
\* line, body.  An empty or malformed body is an error.
ReadResponse(wire) ==
    IF Len(wire) >= 2 /\ wire[1].t = "status" /\ BlankAt(wire, 2) > 0
    THEN [ok |-> TRUE, status |-> wire[1].n,
          header |-> [i \in 1..(BlankAt(wire, 2) - 2) |-> wire[i + 1].n],
          body |-> BodyOf(SubSeq(wire, BlankAt(wire, 2) + 1, Len(wire)))]
    ELSE [ok |-> FALSE, status |-> 0, header |-> << >>, body |-> << >>]

\* What a handler's calls mean under the http.Handler contract: the status of
\* the first WriteHeader (200 when Write comes first), the headers set before
\* it, and the bytes written.
RECURSIVE FirstEmit(_, _)
FirstEmit(script, i) ==
    IF i > Len(script) THEN 0
    ELSE IF script[i].op \in {"WriteHeader", "Write"} THEN i
    ELSE FirstEmit(script, i + 1)

RECURSIVE ArgsOf(_, _)
ArgsOf(script, op) ==
    IF script = << >> THEN << >>
    ELSE IF Head(script).op = op THEN << Head(script).arg >> \o ArgsOf(Tail(script), op)
    ELSE ArgsOf(Tail(script), op)

\* Response{Err, HTTP}
Response(err, status, header, body) ==
    [err |-> err, status |-> status, header |-> header, body |-> body]
NoResponse == Response("", 0, << >>, << >>)
ErrorResponse(err) == Response(err, 0, << >>, << >>)

HandlerResponse(script) ==
    LET e == FirstEmit(script, 1) IN
    IF e = 0 THEN NoResponse
    ELSE Response(ErrNone,
                  IF script[e].op = "WriteHeader" THEN script[e].arg ELSE StatusOK,
                  ArgsOf(SubSeq(script, 1, e - 1), "Header"),
                  ArgsOf(script, "Write"))


\* ------------------------------------------------------ timeout resolution
Minute == 60000              \* time.Minute, in milliseconds
LongPollMinTimeout == 0      \* Server.LongPollMinTimeout (zero value)
LongPollMaxTimeout == 120000 \* Server.LongPollMaxTimeout default

\* ConnectAndServe's pollTimeout.String()
PollTimeoutHeader == "1m0s"

\* The X-Timeout values of the hand-made POSTs: absent, unparseable, and
\* durations below, at, between and above the bounds of the test's server.
TimeoutHeaders ==
    {"", "not-a-valid-time", "10ms", "50ms", "100ms", "150ms", "200ms"}

\* time.ParseDuration on the strings the pollers send, in milliseconds.
ParseDuration(str) ==
    CASE str = "1m0s"  -> [ok |-> TRUE, d |-> Minute]
      [] str = "10ms"  -> [ok |-> TRUE, d |-> 10]
      [] str = "50ms"  -> [ok |-> TRUE, d |-> 50]
      [] str = "100ms" -> [ok |-> TRUE, d |-> 100]
      [] str = "150ms" -> [ok |-> TRUE, d |-> 150]
      [] str = "200ms" -> [ok |-> TRUE, d |-> 200]
      [] OTHER         -> [ok |-> FALSE, d |-> 0]

\* Server{LongPollMinTimeout, LongPollMaxTimeout} once doInit has run: the
\* zero value with its defaults, and the server of TestBadTimeoutValues.
Config(min, max) == [min |-> min, max |-> max]
DefaultConfig == Config(LongPollMinTimeout, LongPollMaxTimeout)
Configs == {DefaultConfig, Config(50, 150)}

\* The value of one X-Warning header.
Warning(direction, bound) == [direction |-> direction, bound |-> bound]

\* The clamp without lines 155-159: nothing enforces the minimum.
ClampTimeoutNoMinimum(d, min, max) ==
    IF d > max
    THEN [timeout |-> max, warning |-> << Warning("too high", max) >>]
    ELSE [timeout |-> d, warning |-> << >>]

\* Lines 150-159: the two clamps, in the order of the code.  Header().Add
\* appends, so the warnings are a sequence.
ClampTimeout(d, min, max) ==
    LET high == d > max
        t1 == IF high THEN max ELSE d
        w1 == IF high THEN << Warning("too high", max) >> ELSE << >>
        low == t1 < min
    IN  [timeout |-> IF low THEN min ELSE t1,
         warning |-> IF low THEN Append(w1, Warning("too low", min)) ELSE w1]

\* The value of the X-Error header of line 145.
XErrorParse == "cannot parse duration in X-Timeout header"

\* -------------------------------------------------------------------- state
VARIABLES
    sessions,        \* Server.sessions: the ids present in the map
    minted,          \* number of Session objects created so far (ids 1..minted)
    PendingRequest,  \* Session.PendingRequest, per session object
    Requests,        \* Session.Requests: "open" or "closed"
    closed,          \* Session.closed: TRUE once close(s.closed) has run
    handlerMu,       \* Session.handlerMu: the poll that holds it, or ""
    closer,          \* Session.closer: "nil", "armed" or "fired"
    timerPC,         \* position of the idle-timer callback goroutine
    rt,              \* Session.RoundTrip invocations
    cl,              \* Session.Close invocations made by originators
    poll,            \* ServeHTTP invocation serving each client's POST
    client,          \* ConnectAndServe loops
    crashed,         \* the server process died of an unrecovered panic
    cfg,             \* Server.LongPollMinTimeout and Server.LongPollMaxTimeout
    rw,              \* the ResponseWriter of a handler goroutine (lines 250-252)
    calls            \* the calls the handler has made on rw so far

vars == << sessions, minted, PendingRequest, Requests, closed, handlerMu,
           closer, timerPC, rt, cl, poll, client, crashed, cfg, rw, calls >>

\* The server and its peers, as opposed to the handler goroutine's writer.
serverVars == << sessions, minted, PendingRequest, Requests, closed, handlerMu,
                 closer, timerPC, rt, cl, poll, client, crashed, cfg >>

\* What no step of the server, of a poller or of an originator changes.
writerVars == << cfg, rw, calls >>

\* Lines 139-149 and the clamp: the effective wait and the X-Warning header.
ResolveTimeout(timeoutStr) ==
    LET parsed == IF timeoutStr = "" THEN [ok |-> TRUE, d |-> Minute]
                  ELSE ParseDuration(timeoutStr)
        c == ClampTimeout(parsed.d, cfg.min, cfg.max)
    IN  [ok |-> parsed.ok, timeout |-> c.timeout, warning |-> c.warning]

sessionVars == << PendingRequest, Requests, closed, handlerMu, closer >>

NoPoll == [pc |-> "none", xSession |-> NoSession, xTimeout |-> "",
           servedFor |-> Nil, script |-> << >>, session |-> NoSession, late |-> FALSE,
           timeout |-> 0, warning |-> << >>]

NoAnswer == [status |-> 0, xSession |-> NoSession, body |-> << >>,
             xWarning |-> << >>, xError |-> ""]

InitState(config) ==
    /\ sessions = {}
    /\ minted = 0
    /\ PendingRequest = [s \in Sessions |-> Nil]
    /\ Requests = [s \in Sessions |-> "open"]
    /\ closed = [s \in Sessions |-> FALSE]
    /\ handlerMu = [s \in Sessions |-> ""]
    /\ closer = [s \in Sessions |-> "nil"]
    /\ timerPC = [s \in Sessions |-> "none"]
    /\ rt = [c \in Calls |-> [pc |-> "idle", session |-> NoSession,
                              resp |-> NoResponse, afterClose |-> FALSE]]
    /\ cl = [k \in Closers |-> [pc |-> "idle", session |-> NoSession]]
    /\ poll = [p \in Pollers |-> NoPoll]
    /\ client = [p \in Pollers |-> [pc |-> "init", sessionID |-> NoSession,
                                    err |-> "", resp |-> NoAnswer]]
    /\ crashed = FALSE
    /\ cfg = config
    /\ rw = NewResponseWriter
    /\ calls = << >>

\* A server left at its zero value: doInit sets the defaults.
Init == InitState(DefaultConfig)


\* ------------------------------------------------------------------ helpers
\* A lookup that never finds the session.
LookupSessionMiss(id) == NoSession

\* s.sessions[sessionID], line 92 and line 118
LookupSession(id) == IF id \in sessions THEN id ELSE NoSession

\* RoundTrip without its closed check: the select always takes its default.
SessionIsClosedUnchecked(s) == FALSE

\* The non-blocking receive on s.closed that opens RoundTrip, lines 53-57
SessionIsClosed(s) == closed[s]

\* The drain without line 135: the slot keeps the answered originator.
PendingAfterDeliveryKept(c) == c

\* session.PendingRequest after a decoded reply was delivered, line 135
PendingAfterDelivery(c) == Nil

\* session.PendingRequest after the decode error was delivered, lines 128-131
PendingAfterDecodeError(c) == c

\* RoundTrip calls of session s that are past the closed check and have not
\* returned: blocked in the send on Requests or in the receive of the reply.
Blocked(c, s) == rt[c].session = s /\ rt[c].pc \in {"send", "recv"}

\* Both statements of Close() have run on s.  rt[c].afterClose records, for
\* the history of call c, whether that was so when the call started.
CloseCompleted(s) == closed[s] /\ Requests[s] = "closed"

\* A case of the select of line 162 other than the timer can proceed: the
\* channel is closed or an originator is in its send.
RequestsReady(s) ==
    Requests[s] = "closed" \/ \E c \in Calls : rt[c].session = s /\ rt[c].pc = "send"

\* close(s.closed), line 46.  Closing a closed channel panics.
CloseClosedPanics(s) == closed[s]

\* close(s.Requests), line 47.  Closing a closed channel panics, and so does
\* every goroutine blocked in a send on the channel.
CloseRequestsPanics(s) ==
    Requests[s] = "closed" \/ \E c \in Calls : rt[c].session = s /\ rt[c].pc = "send"

RtAfterCloseRequests(s) ==
    [c \in Calls |-> IF rt[c].session = s /\ rt[c].pc = "send"
                     THEN [rt[c] EXCEPT !.pc = "panic"]
                     ELSE rt[c]]

\* A lock that never excludes anybody.
MutexAlwaysFree(s) == TRUE

\* session.handlerMu.Lock() can proceed, line 109.
MutexFree(s) == handlerMu[s] = ""

\* ------------------------------------------------------- Session.RoundTrip
\* Lines 52-63: the closed check, then the request is offered on Requests.
RoundTripBegin(c, s) ==
    /\ ~crashed
    /\ rt[c].pc = "idle"
    /\ \A d \in Calls : d < c => rt[d].pc # "idle"
    /\ s \in 1..minted
    /\ rt' = [rt EXCEPT ![c] =
                IF SessionIsClosed(s)
                THEN [@ EXCEPT !.pc = "done", !.session = s,
                               !.resp = ErrorResponse(ErrSessionClosed),
                               !.afterClose = CloseCompleted(s)]
                ELSE [@ EXCEPT !.pc = "send", !.session = s,
                               !.afterClose = CloseCompleted(s)]]
    /\ UNCHANGED << sessions, minted, sessionVars, timerPC, cl, poll, client, crashed >>
    /\ UNCHANGED writerVars

\* ----------------------------------------------------------- Session.Close
\* Line 46, called by an originator (the OnConnect callback).
CloseBegin(k, s) ==
    /\ ~crashed
    /\ cl[k].pc = "idle"
    /\ \A j \in Closers : j < k => cl[j].pc # "idle"
    /\ s \in 1..minted
    /\ IF CloseClosedPanics(s)
       THEN /\ cl' = [cl EXCEPT ![k] = [pc |-> "panic", session |-> s]]
            /\ crashed' = TRUE
            /\ UNCHANGED closed
       ELSE /\ cl' = [cl EXCEPT ![k] = [pc |-> "closeRequests", session |-> s]]
            /\ closed' = [closed EXCEPT ![s] = TRUE]
            /\ UNCHANGED crashed
    /\ UNCHANGED << sessions, minted, PendingRequest, Requests, handlerMu, closer,
                    timerPC, rt, poll, client >>
    /\ UNCHANGED writerVars

\* Line 47, called by an originator.
CloseFinish(k) ==
    LET s == cl[k].session IN
    /\ ~crashed
    /\ cl[k].pc = "closeRequests"
    /\ IF CloseRequestsPanics(s)
       THEN /\ cl' = [cl EXCEPT ![k].pc = IF Requests[s] = "closed" THEN "panic" ELSE "done"]
            /\ crashed' = TRUE
       ELSE /\ cl' = [cl EXCEPT ![k].pc = "done"]
            /\ UNCHANGED crashed
    /\ Requests' = [Requests EXCEPT ![s] = "closed"]
    /\ rt' = RtAfterCloseRequests(s)
    /\ UNCHANGED << sessions, minted, PendingRequest, closed, handlerMu, closer,
                    timerPC, poll, client >>
    /\ UNCHANGED writerVars


\* ------------------------------------------------------- idle-timer callback
\* time.AfterFunc(s.SessionIdleTimeout, ...) comes due, line 116.  The guard
\* on minted keeps an id free for the poll that follows an eviction.
TimerFire(s) ==
    /\ ~crashed
    /\ closer[s] = "armed"
    /\ timerPC[s] = "none"
    /\ minted < MaxSessions
    /\ closer' = [closer EXCEPT ![s] = "fired"]
    /\ timerPC' = [timerPC EXCEPT ![s] = "lookup"]
    /\ UNCHANGED << sessions, minted, PendingRequest, Requests, closed, handlerMu,
                    rt, cl, poll, client, crashed >>
    /\ UNCHANGED writerVars

\* Lines 118-121: the lookup and, through session.Close(), close(s.closed).
TimerClose(s) ==
    /\ ~crashed
    /\ timerPC[s] = "lookup"
    /\ IF LookupSession(s) = NoSession
       THEN /\ timerPC' = [timerPC EXCEPT ![s] = "none"]
            /\ UNCHANGED << closed, crashed >>
       ELSE IF CloseClosedPanics(s)
       THEN /\ timerPC' = [timerPC EXCEPT ![s] = "panic"]
            /\ crashed' = TRUE
            /\ UNCHANGED closed
       ELSE /\ timerPC' = [timerPC EXCEPT ![s] = "closeRequests"]
            /\ closed' = [closed EXCEPT ![s] = TRUE]
            /\ UNCHANGED crashed
    /\ UNCHANGED << sessions, minted, PendingRequest, Requests, handlerMu, closer,
                    rt, cl, poll, client >>
    /\ UNCHANGED writerVars

\* Line 121, second half of session.Close(): close(s.Requests).
TimerCloseRequests(s) ==
    /\ ~crashed
    /\ timerPC[s] = "closeRequests"
    /\ IF CloseRequestsPanics(s)
       THEN /\ timerPC' = [timerPC EXCEPT ![s] = "closeRequestsPanic"]
            /\ crashed' = TRUE
       ELSE /\ timerPC' = [timerPC EXCEPT ![s] = "delete"]
            /\ UNCHANGED crashed
    /\ Requests' = [Requests EXCEPT ![s] = "closed"]
    /\ rt' = RtAfterCloseRequests(s)
    /\ UNCHANGED << sessions, minted, PendingRequest, closed, handlerMu, closer,
                    cl, poll, client >>
    /\ UNCHANGED writerVars

\* Line 122: delete(s.sessions, sessionID).
TimerDelete(s) ==
    /\ ~crashed
    /\ timerPC[s] = "delete"
    /\ sessions' = sessions \ {s}
    /\ timerPC' = [timerPC EXCEPT ![s] = "none"]
    /\ UNCHANGED << minted, sessionVars, rt, cl, poll, client, crashed >>
    /\ UNCHANGED writerVars


\* --------------------------------------------------------- Server.ServeHTTP
\* A POST in flight.  Its body is the pipe the handler goroutine of lines
\* 249-255 writes into: what the handler's calls put on the ResponseWriter.
PostWith(xSession, xTimeout, servedFor, script) ==
    [pc |-> "bind", xSession |-> xSession, xTimeout |-> xTimeout,
     servedFor |-> servedFor, script |-> script, session |-> NoSession, late |-> FALSE,
     timeout |-> 0, warning |-> << >>]

\* A POST of ConnectAndServe: X-Timeout is pollTimeout.String().
Post(xSession, servedFor, script) ==
    PostWith(xSession, PollTimeoutHeader, servedFor, script)

Body(p) == RunHandler(NewResponseWriter, poll[p].script).w

\* The answer of a poll as the client's http.Client.Do returns it.
Answer(p, status, body) ==
    [client[p] EXCEPT !.pc = "response",
                      !.resp = [status |-> status, xSession |-> poll[p].session,
                                body |-> body, xWarning |-> poll[p].warning,
                                xError |-> ""]]

\* The 400 of a parse failure without line 145: no X-Error header.
AnswerParseErrorNoHeader(p) == Answer(p, StatusBadRequest, << >>)

\* Lines 144-147: the answer to a poll whose X-Timeout does not parse.
AnswerParseError(p) ==
    [Answer(p, StatusBadRequest, << >>) EXCEPT !.resp.xError = XErrorParse]

\* Lines 91-107: session binding.  An absent or unknown id mints a session and
\* hands it to OnConnect.
Bind(p) ==
    LET id == poll[p].xSession
        found == LookupSession(id)
        late == id # NoSession /\ closed[id] /\ Requests[id] = "closed"
    IN
    /\ ~crashed
    /\ poll[p].pc = "bind"
    /\ IF found # NoSession
       THEN /\ poll' = [poll EXCEPT ![p].pc = "lock", ![p].session = found,
                                    ![p].late = late]
            /\ UNCHANGED << sessions, minted >>
       ELSE /\ minted < MaxSessions
            /\ minted' = minted + 1
            /\ sessions' = sessions \cup {minted + 1}
            /\ poll' = [poll EXCEPT ![p].pc = "lock", ![p].session = minted + 1,
                                    ![p].late = late]
    /\ UNCHANGED << sessionVars, timerPC, rt, cl, client, crashed >>
    /\ UNCHANGED writerVars

\* Lines 109-124, then the test of line 126 and, when nothing is pending, the
\* timeout resolution of lines 138-160.
LockAndReset(p) ==
    LET s == poll[p].session
        r == ResolveTimeout(poll[p].xTimeout)
    IN
    /\ ~crashed
    /\ poll[p].pc = "lock"
    /\ MutexFree(s)
    /\ closer' = [closer EXCEPT ![s] = "armed"]
    /\ IF PendingRequest[s] # Nil
       THEN /\ poll' = [poll EXCEPT ![p].pc = "drain"]
            /\ handlerMu' = [handlerMu EXCEPT ![s] = p]
            /\ UNCHANGED client
       ELSE IF r.ok
       THEN /\ poll' = [poll EXCEPT ![p].pc = "select", ![p].timeout = r.timeout,
                                    ![p].warning = r.warning]
            /\ handlerMu' = [handlerMu EXCEPT ![s] = p]
            /\ UNCHANGED client
       ELSE /\ poll' = [poll EXCEPT ![p] = NoPoll]
            /\ client' = [client EXCEPT ![p] = AnswerParseError(p)]
            /\ UNCHANGED handlerMu
    /\ UNCHANGED << sessions, minted, PendingRequest, Requests, closed, timerPC,
                    rt, cl, crashed >>
    /\ UNCHANGED writerVars

\* Lines 127, 133-135: the body decodes; the reply is sent to the originator
\* waiting in RoundTrip (the send needs its receiver), then lines 138-160.
DrainOk(p) ==
    LET s == poll[p].session
        c == PendingRequest[s]
        resp == ReadResponse(Body(p))
        r == ResolveTimeout(poll[p].xTimeout)
    IN
    /\ ~crashed
    /\ poll[p].pc = "drain"
    /\ resp.ok
    /\ rt[c].pc = "recv"
    /\ rt' = [rt EXCEPT ![c].pc = "done",
                        ![c].resp = Response(ErrNone, resp.status, resp.header, resp.body)]
    /\ PendingRequest' = [PendingRequest EXCEPT ![s] = PendingAfterDelivery(c)]
    /\ IF r.ok
       THEN /\ poll' = [poll EXCEPT ![p].pc = "select", ![p].timeout = r.timeout,
                                    ![p].warning = r.warning]
            /\ UNCHANGED << client, handlerMu >>
       ELSE /\ poll' = [poll EXCEPT ![p] = NoPoll]
            /\ client' = [client EXCEPT ![p] = AnswerParseError(p)]
            /\ handlerMu' = [handlerMu EXCEPT ![s] = ""]
    /\ UNCHANGED << sessions, minted, Requests, closed, closer, timerPC, cl, crashed >>
    /\ UNCHANGED writerVars

\* Lines 127-131: the body does not decode; the error is sent to the
\* originator and the poll is answered 400.
DrainError(p) ==
    LET s == poll[p].session
        c == PendingRequest[s]
        resp == ReadResponse(Body(p))
    IN
    /\ ~crashed
    /\ poll[p].pc = "drain"
    /\ ~resp.ok
    /\ rt[c].pc = "recv"
    /\ rt' = [rt EXCEPT ![c].pc = "done", ![c].resp = ErrorResponse(ErrDecode)]
    /\ PendingRequest' = [PendingRequest EXCEPT ![s] = PendingAfterDecodeError(c)]
    /\ poll' = [poll EXCEPT ![p] = NoPoll]
    /\ client' = [client EXCEPT ![p] = Answer(p, StatusBadRequest, << >>)]
    /\ handlerMu' = [handlerMu EXCEPT ![s] = ""]
    /\ UNCHANGED << sessions, minted, Requests, closed, closer, timerPC, cl, crashed >>
    /\ UNCHANGED writerVars

\* Lines 163-165: time.After(timeout) comes due.  A timer of positive
\* duration is not yet due while the other case of the select can proceed.
SelectTimeout(p) ==
    LET s == poll[p].session IN
    /\ ~crashed
    /\ poll[p].pc = "select"
    /\ poll[p].timeout = 0 \/ ~RequestsReady(s)
    /\ poll' = [poll EXCEPT ![p] = NoPoll]
    /\ client' = [client EXCEPT ![p] = Answer(p, StatusNoContent, << >>)]
    /\ handlerMu' = [handlerMu EXCEPT ![s] = ""]
    /\ UNCHANGED << sessions, minted, PendingRequest, Requests, closed, closer,
                    timerPC, rt, cl, crashed >>
    /\ UNCHANGED writerVars

\* Lines 166-171: the receive on the closed Requests channel.
SelectGone(p) ==
    LET s == poll[p].session IN
    /\ ~crashed
    /\ poll[p].pc = "select"
    /\ Requests[s] = "closed"
    /\ poll' = [poll EXCEPT ![p] = NoPoll]
    /\ client' = [client EXCEPT ![p] = Answer(p, StatusGone, << >>)]
    /\ handlerMu' = [handlerMu EXCEPT ![s] = ""]
    /\ UNCHANGED << sessions, minted, PendingRequest, Requests, closed, closer,
                    timerPC, rt, cl, crashed >>
    /\ UNCHANGED writerVars

\* Lines 63, 166, 173-179: the hand-off of call c's request to the poll, which
\* writes it into the answer and records it as pending.
SelectRequest(p, c) ==
    LET s == poll[p].session IN
    /\ ~crashed
    /\ poll[p].pc = "select"
    /\ Requests[s] = "open"
    /\ rt[c].pc = "send" /\ rt[c].session = s
    /\ rt' = [rt EXCEPT ![c].pc = "recv"]
    /\ PendingRequest' = [PendingRequest EXCEPT ![s] = c]
    /\ poll' = [poll EXCEPT ![p] = NoPoll]
    /\ client' = [client EXCEPT ![p] = Answer(p, StatusOK, WriteRequest(HTTPRequest(c)))]
    /\ handlerMu' = [handlerMu EXCEPT ![s] = ""]
    /\ UNCHANGED << sessions, minted, Requests, closed, closer, timerPC, cl, crashed >>
    /\ UNCHANGED writerVars

\* Lines 63, 166, 173-178: the hand-off, but req.HTTP.Write fails after n items; the error
\* goes to the originator and nothing is recorded as pending.
SelectRequestWriteError(p, c, n) ==
    LET s == poll[p].session IN
    /\ ~crashed
    /\ poll[p].pc = "select"
    /\ Requests[s] = "open"
    /\ rt[c].pc = "send" /\ rt[c].session = s
    /\ rt' = [rt EXCEPT ![c].pc = "done", ![c].resp = ErrorResponse(ErrWrite)]
    /\ poll' = [poll EXCEPT ![p] = NoPoll]
    /\ client' = [client EXCEPT ![p] = Answer(p, StatusOK, TruncatedRequest(HTTPRequest(c), n))]
    /\ handlerMu' = [handlerMu EXCEPT ![s] = ""]
    /\ UNCHANGED << sessions, minted, PendingRequest, Requests, closed, closer,
                    timerPC, cl, crashed >>
    /\ UNCHANGED writerVars

\* The session table is read and written without a lock (lines 92, 102, 118,
\* 122).  Two goroutines inside a map access, one of them writing, may end
\* the process with the runtime's "concurrent map" fatal error.
PollReadsMap(p) == poll[p].pc = "bind"
PollWritesMap(p) == poll[p].pc = "bind" /\ LookupSession(poll[p].xSession) = NoSession
TimerReadsMap(s) == timerPC[s] = "lookup"
TimerWritesMap(s) == timerPC[s] = "delete"

ConcurrentMapAccess ==
    \/ \E p \in Pollers, s \in Sessions :
          \/ PollReadsMap(p) /\ TimerWritesMap(s)
          \/ PollWritesMap(p) /\ TimerReadsMap(s)
    \/ \E s1, s2 \in Sessions :
          s1 # s2 /\ TimerWritesMap(s1) /\ (TimerReadsMap(s2) \/ TimerWritesMap(s2))
    \/ \E p, q \in Pollers : p # q /\ PollWritesMap(p) /\ PollReadsMap(q)

MapRace ==
    /\ ~crashed
    /\ ConcurrentMapAccess
    /\ crashed' = TRUE
    /\ UNCHANGED << sessions, minted, sessionVars, timerPC, rt, cl, poll, client >>
    /\ UNCHANGED writerVars

\* ---------------------------------------------------------- ConnectAndServe
\* Lines 216-218: the first POST, with no X-Session and no body.
Connect(p) ==
    /\ client[p].pc = "init"
    /\ client' = [client EXCEPT ![p].pc = "inflight"]
    /\ poll' = [poll EXCEPT ![p] = Post(NoSession, Nil, << >>)]
    /\ UNCHANGED << sessions, minted, sessionVars, timerPC, rt, cl, crashed >>
    /\ UNCHANGED writerVars

\* A re-poll without line 228.
RepollSessionOmitted(p) == NoSession

\* Lines 224 and 228: the X-Session of the re-poll is the one of the answer.
RepollSession(p) == client[p].resp.xSession

\* Lines 224-234: 204, poll again with the session id of the answer.
ClientRepoll(p) ==
    /\ client[p].pc = "response"
    /\ client[p].resp.status = StatusNoContent
    /\ client' = [client EXCEPT ![p].pc = "inflight",
                                ![p].sessionID = client[p].resp.xSession,
                                ![p].resp = NoAnswer]
    /\ poll' = [poll EXCEPT ![p] = Post(RepollSession(p), Nil, << >>)]
    /\ UNCHANGED << sessions, minted, sessionVars, timerPC, rt, cl, crashed >>
    /\ UNCHANGED writerVars

\* Lines 224, 235-237: 410 ends the loop with ErrSessionClosed.
ClientGone(p) ==
    /\ client[p].pc = "response"
    /\ client[p].resp.status = StatusGone
    /\ client' = [client EXCEPT ![p].pc = "done",
                                ![p].sessionID = client[p].resp.xSession,
                                ![p].err = ErrSessionClosed]
    /\ UNCHANGED << sessions, minted, sessionVars, timerPC, rt, cl, poll, crashed >>
    /\ UNCHANGED writerVars

\* Lines 224, 238-240: any other status but 200 ends the loop with an error.
ClientBadStatus(p) ==
    /\ client[p].pc = "response"
    /\ client[p].resp.status \notin {StatusNoContent, StatusGone, StatusOK}
    /\ client' = [client EXCEPT ![p].pc = "done",
                                ![p].sessionID = client[p].resp.xSession,
                                ![p].err = ErrStatus]
    /\ UNCHANGED << sessions, minted, sessionVars, timerPC, rt, cl, poll, crashed >>
    /\ UNCHANGED writerVars

\* Lines 242-245: the body of a 200 does not decode as a request.
ClientBadRequest(p) ==
    /\ client[p].pc = "response"
    /\ client[p].resp.status = StatusOK
    /\ ~ReadRequest(client[p].resp.body).ok
    /\ client' = [client EXCEPT ![p].pc = "done",
                                ![p].sessionID = client[p].resp.xSession,
                                ![p].err = ErrDecode]
    /\ UNCHANGED << sessions, minted, sessionVars, timerPC, rt, cl, poll, crashed >>
    /\ UNCHANGED writerVars

\* Lines 242-265: the request is decoded, the handler runs on a
\* ResponseWriter, and what it wrote is the body of the next POST.
ClientServe(p, script) ==
    LET req == ReadRequest(client[p].resp.body) IN
    /\ client[p].pc = "response"
    /\ client[p].resp.status = StatusOK
    /\ req.ok
    /\ script \in HandlerScripts(req.body)
    /\ client' = [client EXCEPT ![p].pc = "inflight",
                                ![p].sessionID = client[p].resp.xSession,
                                ![p].resp = NoAnswer]
    /\ poll' = [poll EXCEPT ![p] = Post(client[p].resp.xSession, req.body, script)]
    /\ UNCHANGED << sessions, minted, sessionVars, timerPC, rt, cl, crashed >>
    /\ UNCHANGED writerVars

\* Lines 219, 230, 263: httpClient.Do fails once the server process is gone.
ClientTransportError(p) ==
    /\ crashed
    /\ client[p].pc = "inflight"
    /\ client' = [client EXCEPT ![p].pc = "done", ![p].err = ErrTransport]
    /\ poll' = [poll EXCEPT ![p] = NoPoll]
    /\ UNCHANGED << sessions, minted, sessionVars, timerPC, rt, cl, crashed >>
    /\ UNCHANGED writerVars

\* ------------------------------------------------------- pollers by hand
\* TestBadTimeoutValues, lines 240-243: a POST made with http.NewRequest and
\* http.DefaultClient.Do, with no body and an X-Timeout of the poller's
\* choice.  It carries no X-Session while the server has made no session, and
\* the id of a session some poll was bound to afterwards.
TesterPost(p, xSession, xTimeout) ==
    /\ client[p].pc \in {"init", "response"}
    /\ xSession \in (IF minted = 0 THEN {NoSession} ELSE 1..minted)
    /\ client' = [client EXCEPT ![p].pc = "inflight", ![p].resp = NoAnswer]
    /\ poll' = [poll EXCEPT ![p] = PostWith(xSession, xTimeout, Nil, << >>)]
    /\ UNCHANGED << sessions, minted, sessionVars, timerPC, rt, cl, crashed >>
    /\ UNCHANGED writerVars

\* A poller by hand that serves the request of a 200 answer the way lines
\* 242-265 do, with an X-Timeout of its choice.
TesterReply(p, script, xTimeout) ==
    LET req == ReadRequest(client[p].resp.body) IN
    /\ client[p].pc = "response"
    /\ client[p].resp.status = StatusOK
    /\ req.ok
    /\ script \in HandlerScripts(req.body)
    /\ client' = [client EXCEPT ![p].pc = "inflight", ![p].resp = NoAnswer]
    /\ poll' = [poll EXCEPT ![p] = PostWith(client[p].resp.xSession, xTimeout,
                                            req.body, script)]
    /\ UNCHANGED << sessions, minted, sessionVars, timerPC, rt, cl, crashed >>
    /\ UNCHANGED writerVars

\* -------------------------------------------------- the handler goroutine
\* Line 253: handler.ServeHTTP(rw, serverReq), one call on the ResponseWriter
\* at a time.  A handler may call Header().Add, WriteHeader and Write in any
\* order and any number of times.
HeaderKeys == {1, 2}
StatusCodes == {StatusOK, StatusTeapot}
Chunks == Calls

HandlerCall(call) ==
    /\ Len(calls) < MaxScriptLen
    /\ rw' = RWCall(rw, call)
    /\ calls' = Append(calls, call)
    /\ UNCHANGED serverVars

HandlerHeader(k) == HandlerCall(Call("Header", k))

HandlerWriteHeader(statusCode) == HandlerCall(Call("WriteHeader", statusCode))

HandlerWrite(b) == HandlerCall(Call("Write", b))

WriterNext ==
    \/ \E k \in HeaderKeys : HandlerHeader(k)
    \/ \E statusCode \in StatusCodes : HandlerWriteHeader(statusCode)
    \/ \E b \in Chunks : HandlerWrite(b)

WriterSpec == Init /\ [][WriterNext]_vars

\* ------------------------------------------------------------ specification
Next ==
    \/ \E c \in Calls, s \in Sessions : RoundTripBegin(c, s)
    \/ \E k \in Closers, s \in Sessions : CloseBegin(k, s)
    \/ \E k \in Closers : CloseFinish(k)
    \/ \E s \in Sessions : TimerFire(s)
    \/ \E s \in Sessions : TimerClose(s)
    \/ \E s \in Sessions : TimerCloseRequests(s)
    \/ \E s \in Sessions : TimerDelete(s)
    \/ \E p \in Clients : Bind(p)
    \/ \E p \in Clients : LockAndReset(p)
    \/ \E p \in Clients : DrainOk(p)
    \/ \E p \in Clients : DrainError(p)
    \/ \E p \in Clients : SelectTimeout(p)
    \/ \E p \in Clients : SelectGone(p)
    \/ \E p \in Clients, c \in Calls : SelectRequest(p, c)
    \/ \E p \in Clients, c \in Calls, n \in 1..2 : SelectRequestWriteError(p, c, n)
    \/ MapRace
    \/ \E p \in Clients : Connect(p)
    \/ \E p \in Clients : ClientRepoll(p)
    \/ \E p \in Clients : ClientGone(p)
    \/ \E p \in Clients : ClientBadStatus(p)
    \/ \E p \in Clients : ClientBadRequest(p)
    \/ \E p \in Clients, b \in Calls \cup {Nil} :
          \E script \in HandlerScripts(b) : ClientServe(p, script)
    \/ \E p \in Clients : ClientTransportError(p)

\* The session a client's loop is on: the one that answered it last, while the
\* answer is being handled; else the one its poll in service is bound to;
\* else the one named by the id it remembers.
ClientSession(p) ==
    IF client[p].pc = "response" THEN client[p].resp.xSession
    ELSE IF poll[p].session # NoSession THEN poll[p].session
    ELSE client[p].sessionID

Spec == Init /\ [][Next]_vars

\* Goroutines that can take a step eventually take it, and timers of the
\* select come due.  Nothing obliges an originator to call RoundTrip or
\* Close, the idle timer to come due before the next poll resets it, or the
\* map race to be fatal.
Fairness ==
    /\ \A k \in Closers : WF_vars(CloseFinish(k))
    /\ \A s \in Sessions :
          WF_vars(TimerClose(s) \/ TimerCloseRequests(s) \/ TimerDelete(s))
    /\ \A p \in Clients :
          /\ WF_vars(Bind(p) \/ LockAndReset(p) \/ DrainOk(p) \/ DrainError(p))
          /\ WF_vars(SelectTimeout(p) \/ SelectGone(p))
          /\ WF_vars(\E c \in Calls :
                        \/ SelectRequest(p, c)
                        \/ \E n \in 1..2 : SelectRequestWriteError(p, c, n))
          /\ WF_vars(Connect(p) \/ ClientRepoll(p) \/ ClientGone(p) \/ ClientBadStatus(p)
                        \/ ClientBadRequest(p) \/ ClientTransportError(p))
          /\ WF_vars(\E b \in Calls \cup {Nil} :
                        \E script \in HandlerScripts(b) : ClientServe(p, script))

FairSpec == Spec /\ Fairness

\* The server of TestBadTimeoutValues: one poller by hand that sends every
\* X-Timeout, under either configuration; originators that submit requests
\* and never call Close(); an idle timeout (ten minutes by default) that
\* does not come due.
PollInit == \E config \in Configs : InitState(config)

PollNext ==
    \/ \E c \in Calls, s \in Sessions : RoundTripBegin(c, s)
    \/ \E p \in TimeoutTesters : Bind(p)
    \/ \E p \in TimeoutTesters : LockAndReset(p)
    \/ \E p \in TimeoutTesters : DrainOk(p)
    \/ \E p \in TimeoutTesters : DrainError(p)
    \/ \E p \in TimeoutTesters : SelectTimeout(p)
    \/ \E p \in TimeoutTesters, c \in Calls : SelectRequest(p, c)
    \/ \E p \in TimeoutTesters, s \in Sessions \cup {NoSession}, t \in TimeoutHeaders :
          TesterPost(p, s, t)
    \/ \E p \in TimeoutTesters, b \in Calls \cup {Nil}, t \in TimeoutHeaders :
          \E script \in HandlerScripts(b) : TesterReply(p, script, t)

PollSpec == PollInit /\ [][PollNext]_vars

\* The server under several pollers by hand that run concurrently and may
\* carry the same X-Session, none of them sending X-Timeout; originators and
\* the idle timeout as in PollSpec.
ConcurrentNext ==
    \/ \E c \in Calls, s \in Sessions : RoundTripBegin(c, s)
    \/ \E p \in Testers : Bind(p)
    \/ \E p \in Testers : LockAndReset(p)
    \/ \E p \in Testers : DrainOk(p)
    \/ \E p \in Testers : DrainError(p)
    \/ \E p \in Testers : SelectTimeout(p)
    \/ \E p \in Testers, c \in Calls : SelectRequest(p, c)
    \/ MapRace
    \/ \E p \in Testers, s \in Sessions \cup {NoSession} : TesterPost(p, s, "")
    \/ \E p \in Testers, b \in Calls \cup {Nil} :
          \E script \in HandlerScripts(b) : TesterReply(p, script, "")

ConcurrentSpec == Init /\ [][ConcurrentNext]_vars


\* ------------------------------------------------------------------- claims

\* A call waits for a reply that can no longer come: its request was handed
\* off, its session has left the table, and no poll is bound to the session.
Stuck(c) ==
    /\ rt[c].pc = "recv"
    /\ rt[c].session \notin sessions
    /\ \A p \in Clients : poll[p].session # rt[c].session

\* C1: every RoundTrip call returns, with a response or an error; no call
\* faults (panics), and no call is left waiting for a reply on a closed and
\* evicted session, where no poll can ever deliver one.
C1_EveryRoundTripReturns ==
    \A c \in Calls : rt[c].pc # "panic" /\ ~Stuck(c)

\* C2: a RoundTrip call that is blocked (in the send on Requests or in the
\* receive of its reply) on a session that has been closed leaves that state
\* only by returning ErrSessionClosed.
C2_BlockedCallSeesClosed ==
    [][\A c \in Calls :
          (rt[c].pc \in {"send", "recv"} /\ closed[rt[c].session]
             /\ rt'[c].pc \notin {"send", "recv"})
          => (rt'[c].pc = "done" /\ rt'[c].resp = ErrorResponse(ErrSessionClosed))]_vars

\* C3: a RoundTrip call that starts after Close() has completed on its
\* session has returned ErrSessionClosed at once: it is never found offering
\* its request on Requests or waiting for a reply.
C3_RoundTripAfterCloseFails ==
    \A c \in Calls :
        rt[c].afterClose =>
            rt[c].pc = "done" /\ rt[c].resp = ErrorResponse(ErrSessionClosed)

\* C3 witness: a call started on a session whose Close() had completed, and
\* has returned.
C3_Witness ==
    \E c \in Calls : rt[c].afterClose /\ rt[c].pc = "done"


\* The step in which client p's POST is answered.
Answered(p) == client[p].pc = "inflight" /\ client'[p].pc = "response"

\* C11: a poll whose X-Timeout parses to t, on a server with min <= max, waits
\* max and is answered with the X-Warning "too high, forcing to maximum max"
\* when t > max; waits min and is answered with "too low, forcing to minimum
\* min" when t < min; and otherwise waits t and is answered with no
\* X-Warning.  Its wait is always within [min, max].
C11_TimeoutClamped ==
    [][\A p \in Pollers :
          LET str == poll[p].xTimeout
              t == ParseDuration(str).d
              wait == poll[p].timeout
              xWarning == client'[p].resp.xWarning
          IN  (/\ poll[p].pc = "select" /\ Answered(p)
               /\ str # "" /\ ParseDuration(str).ok
               /\ cfg.min <= cfg.max)
              => /\ t > cfg.max =>
                      wait = cfg.max /\ xWarning = << Warning("too high", cfg.max) >>
                 /\ t < cfg.min =>
                      wait = cfg.min /\ xWarning = << Warning("too low", cfg.min) >>
                 /\ (cfg.min <= t /\ t <= cfg.max) =>
                      wait = t /\ xWarning = << >>
                 /\ cfg.min <= wait /\ wait <= cfg.max]_vars

\* C11 witness: a poll that asked for less than the minimum of the server of
\* TestBadTimeoutValues has been answered 204 with the "too low" warning.
C11_Witness ==
    \E p \in Testers :
        /\ client[p].pc = "response"
        /\ client[p].resp.status = StatusNoContent
        /\ client[p].resp.xWarning = << Warning("too low", 50) >>

\* A poll reaches the timeout resolution of lines 138-160 in the step that
\* answers it: nothing was pending, or its body decoded as the pending reply.
ReachesTimeoutResolution(p) ==
    \/ poll[p].pc = "lock" /\ PendingRequest[poll[p].session] = Nil
    \/ poll[p].pc = "drain" /\ ReadResponse(Body(p)).ok

\* What C12 says of the step that answers a poll whose X-Timeout does not
\* parse: 400 with an X-Error header, no originator taken from Requests, and
\* PendingRequest not set.
ParseFailureAnswer(p) ==
    /\ client'[p].resp.status = StatusBadRequest
    /\ client'[p].resp.xError # ""
    /\ \A c \in Calls : rt[c].pc = "send" => rt'[c].pc = "send"
    /\ PendingRequest'[poll[p].session] \in {Nil, PendingRequest[poll[p].session]}

\* C12 as stated: every poll whose X-Timeout header does not parse is answered
\* 400 with an X-Error header, takes no originator from Requests and does
\* not set PendingRequest.
C12_UnparseableTimeoutRejected ==
    [][\A p \in Pollers :
          (/\ Answered(p)
           /\ poll[p].xTimeout # "" /\ ~ParseDuration(poll[p].xTimeout).ok)
          => ParseFailureAnswer(p)]_vars

\* C12 amended: every poll whose X-Timeout header does not parse and that
\* reaches the timeout resolution (no request was pending, or its body
\* decoded as the reply to the pending request) is answered 400 with an
\* X-Error header, takes no originator from Requests and leaves
\* PendingRequest empty.
C12_UnparseableTimeoutRejectedAfterDrain ==
    [][\A p \in Pollers :
          (/\ Answered(p)
           /\ poll[p].xTimeout # "" /\ ~ParseDuration(poll[p].xTimeout).ok
           /\ ReachesTimeoutResolution(p))
          => /\ ParseFailureAnswer(p)
             /\ PendingRequest'[poll[p].session] = Nil]_vars

\* C12 witness: a poll with an unparseable X-Timeout has been answered 400
\* with X-Error while an originator offers a request on its session.
C12_Witness ==
    \E p \in Testers : \E c \in Calls :
        /\ client[p].pc = "response"
        /\ client[p].resp.xError = XErrorParse
        /\ rt[c].pc = "send" /\ rt[c].session = client[p].resp.xSession

\* The session of call c was closed or the server died, or the call failed
\* because the client's handler wrote no response or the answer carrying the
\* request could not be written.
Excused(c) ==
    \/ rt[c].session # NoSession /\ closed[rt[c].session]
    \/ crashed
    \/ rt[c].pc = "done" /\ rt[c].resp.err \in {ErrDecode, ErrWrite}

\* C13: the step that answers a poll 204 leaves the poll's session as it was,
\* open or not, and in the session table; and a request offered to the
\* session the client was last answered 204 by is eventually picked up and
\* its RoundTrip returns a response, unless the session is closed meanwhile,
\* the handler or the connection fails, or the client's loop has ended.
C13_RequestAfterTimeoutsServed ==
    /\ [][\A p \in Clients :
             (Answered(p) /\ client'[p].resp.status = StatusNoContent)
             => /\ (poll[p].session \in sessions) = (poll[p].session \in sessions')
                /\ closed'[poll[p].session] = closed[poll[p].session]
                /\ Requests'[poll[p].session] = Requests[poll[p].session]]_vars
    /\ \A p \in Clients : \A c \in Calls :
          (/\ client[p].pc = "response"
           /\ client[p].resp.status = StatusNoContent
           /\ rt[c].pc = "send" /\ rt[c].session = client[p].resp.xSession)
          ~> \/ rt[c].pc = "done" /\ rt[c].resp.err = ErrNone
             \/ Excused(c)
             \/ client[p].pc = "done"

\* C13 witness: the first request of a session has been picked up by a poll
\* that the client made with the X-Session a 204 answer had returned.
C13_Witness ==
    \E p \in Clients :
        /\ rt[1].pc = "recv" /\ \A c \in Calls \ {1} : rt[c].pc = "idle"
        /\ client[p].pc = "response" /\ client[p].resp.status = StatusOK
        /\ client[p].sessionID = rt[1].session
        /\ client[p].resp.xSession = rt[1].session
        /\ ~closed[rt[1].session]

\* C14: a poll that carries the id of a session in the table is bound to that
\* session, and no session is created for it; the answer of a poll bound to
\* the session it named echoes that id.
C14_SameSessionUntilEviction ==
    [][\A p \in Clients :
          /\ (/\ poll[p].pc = "bind" /\ poll'[p].pc = "lock"
               /\ poll[p].xSession \in sessions)
             => /\ poll'[p].session = poll[p].xSession
                /\ minted' = minted
                /\ sessions' = sessions
          /\ (/\ Answered(p)
               /\ poll[p].xSession # NoSession
               /\ poll[p].session = poll[p].xSession)
             => client'[p].resp.xSession = poll[p].xSession]_vars

\* C14 witness: the client has sent the id an answer returned and has been
\* answered with the same id, the session still being in the table.
C14_Witness ==
    \E p \in Clients :
        /\ client[p].pc = "response"
        /\ client[p].sessionID # NoSession
        /\ client[p].sessionID \in sessions
        /\ client[p].resp.xSession = client[p].sessionID

\* Poll p is past session.handlerMu.Lock(): in the response drain or at the
\* select (the timer reset and the timeout resolution are part of the steps
\* that lead there).
PastLock(p) == poll[p].pc \in {"drain", "select"}

\* C15: no two poll handlers are past the lock acquisition on the same
\* session at the same time.
C15_OnePollPastLockPerSession ==
    \A p, q \in Pollers :
        (p # q /\ PastLock(p) /\ PastLock(q)) => poll[p].session # poll[q].session

\* C15 witness: two concurrent polls carry the same X-Session; one is past
\* the lock, the other waits for it.
C15_Witness ==
    \E p, q \in Pollers :
        /\ p # q
        /\ poll[p].xSession # NoSession /\ poll[q].xSession = poll[p].xSession
        /\ poll[q].session = poll[p].session
        /\ PastLock(p) /\ poll[q].pc = "lock"

\* C16: no close of a session faults: neither an explicit Close() nor the
\* idle-timer callback panics on a session that has been closed before.
C16_CloseIsIdempotent ==
    /\ \A k \in Closers : cl[k].pc # "panic"
    /\ \A s \in Sessions : timerPC[s] # "panic"

\* C17: every step that changes a session's closed signal or PendingRequest
\* slot, or arms its idle timer, is a step of a poll handler of that session
\* that holds the session's handler lock or acquires it in that step.
C17_MutationsUnderLock ==
    [][\A s \in Sessions :
          (\/ closed'[s] # closed[s]
           \/ PendingRequest'[s] # PendingRequest[s]
           \/ closer'[s] = "armed" /\ closer[s] # "armed")
          => \E p \in Pollers :
                /\ poll[p].session = s /\ poll'[p] # poll[p]
                /\ handlerMu[s] \in {"", p}]_vars

\* C18: a session on which a close has completed is not in the session table
\* (but for the instant between the two statements of lines 121-122).
C18_ClosedSessionsLeaveTable ==
    \A s \in Sessions :
        (CloseCompleted(s) /\ timerPC[s] # "delete" /\ ~crashed) => s \notin sessions

\* Positions of the items of kind t in what was written to the pipe.
Written(t) == {i \in 1..Len(rw.w) : rw.w[i].t = t}

\* C19: whatever calls the handler has made, the pipe holds at most one
\* status line and one header block, both before every body byte; the status
\* is the one of the first WriteHeader, or 200 when a Write came first; and a
\* WriteHeader made after the first emission writes nothing.
C19_HeaderEmittedOnceBeforeBody ==
    /\ [](LET e == FirstEmit(calls, 1) IN
           /\ Cardinality(Written("status")) <= 1
           /\ Cardinality(Written("blank")) <= 1
           /\ \A i \in Written("status") : i = 1
           /\ \A i \in Written("header") : \A j \in Written("blank") : i < j
           /\ \A i \in Written("body") :
                 /\ Written("status") # {}
                 /\ \E j \in Written("blank") : j < i
           /\ (e # 0 /\ calls[e].op = "Write") => rw.w[1] = Item("status", StatusOK)
           /\ (e # 0 /\ calls[e].op = "WriteHeader") =>
                 rw.w[1] = Item("status", calls[e].arg))
    /\ [][(/\ FirstEmit(calls, 1) # 0
            /\ Len(calls') = Len(calls) + 1
            /\ calls'[Len(calls')].op = "WriteHeader")
           => rw'.w = rw.w]_vars

\* C19 witness: a handler that set a header and wrote a body without calling
\* WriteHeader has called WriteHeader afterwards.
C19_Witness ==
    /\ Len(calls) = 3
    /\ calls[1].op = "Header" /\ calls[2].op = "Write" /\ calls[3].op = "WriteHeader"
    /\ Written("body") # {}

\* A poll handler is in the send of line 129 or 133 and the originator it
\* sends to is not receiving: it has returned, so the send never completes.
PollHung(p) ==
    /\ poll[p].pc = "drain"
    /\ rt[PendingRequest[poll[p].session]].pc # "recv"

\* C20: no poll handler is blocked for ever while it holds the session's
\* handler lock.
C20_NoPollBlockedHoldingLock ==
    \A p \in Pollers : ~PollHung(p)

\* C4: a poll that arrives carrying the id of a session whose Close() has
\* completed (by an originator or by the idle timer) is answered 410 Gone.
C4_LaterPollsAnsweredGone ==
    [][\A p \in Clients :
          (poll[p].late /\ Answered(p)) => client'[p].resp.status = StatusGone]_vars

\* C5: a client loop that is running when an originator calls Close() on its
\* session ends with ErrSessionClosed (the result of a 410 answer), never
\* with another error.
C5_CloseEndsClientLoop ==
    [][\A p \in Clients :
          (/\ client[p].pc \notin {"init", "done"} /\ client'[p].pc = "done"
           /\ \E k \in Closers : /\ cl[k].pc \in {"closeRequests", "done"}
                                 /\ cl[k].session = ClientSession(p))
          => client'[p].err = ErrSessionClosed]_vars

\* C6: once the idle timer has closed the session a running client loop is
\* on, whether a poll of the loop is in service or not, that loop eventually
\* ends (the claim adds: with ErrSessionClosed).
C6_IdleTimeoutEndsClientLoop ==
    \A p \in Clients : \A s \in Sessions :
        (timerPC[s] = "closeRequests" /\ client[p].pc \notin {"init", "done"}
           /\ ClientSession(p) = s)
        ~> (client[p].pc = "done")

\* C7: whenever a RoundTrip call for request c returns a response, the body
\* of the poll that delivers it is what the client's handler wrote for
\* request c, and the response carries the handler's status, headers and body.
C7_RoundTripLaw ==
    [][\A c \in Calls :
          (rt[c].pc # "done" /\ rt'[c].pc = "done" /\ rt'[c].resp.err = ErrNone)
          => \E p \in Clients :
                /\ poll[p].servedFor = c
                /\ poll[p].session = rt[c].session
                /\ rt'[c].resp = HandlerResponse(poll[p].script)]_vars

\* C7 witness: two requests submitted on one session have each received the
\* response the handler gave to that request.
C7_Witness ==
    /\ MaxCalls >= 2
    /\ rt[1].pc = "done" /\ rt[1].resp.err = ErrNone /\ rt[1].resp.body = << 1 >>
    /\ rt[2].pc = "done" /\ rt[2].resp.err = ErrNone /\ rt[2].resp.body = << 2 >>
    /\ rt[1].session = rt[2].session
    /\ rt[1].resp.status # rt[2].resp.status

\* C8: a poll takes an originator from Requests only while the session's
\* PendingRequest is empty and no earlier originator of the session awaits its
\* reply; PendingRequest changes from an originator only to empty, and only
\* once that originator has been answered.
C8_OneRequestInFlight ==
    [][/\ \A c \in Calls :
             (rt[c].pc = "send" /\ rt'[c].pc \in {"recv", "done"})
             => /\ PendingRequest[rt[c].session] = Nil
                /\ \A d \in Calls : ~(rt[d].pc = "recv" /\ rt[d].session = rt[c].session)
       /\ \A s \in Sessions :
             (PendingRequest[s] # Nil /\ PendingRequest'[s] # PendingRequest[s])
             => /\ PendingRequest'[s] = Nil
                /\ rt'[PendingRequest[s]].pc = "done"]_vars

\* C8 witness: the second request of a session is in flight, dispatched after
\* the first one was answered.
C8_Witness ==
    \E s \in Sessions : \E c, d \in Calls :
        /\ c # d
        /\ PendingRequest[s] = d /\ rt[d].pc = "recv"
        /\ rt[c].session = s /\ rt[c].pc = "done" /\ rt[c].resp.err = ErrNone

\* C9: in the step that answers a poll with 204 No Content or 410 Gone, the
\* PendingRequest slot of the session that served the poll is empty.
C9_PendingEmptyAtNoContentOrGone ==
    [][\A p \in Clients :
          (Answered(p) /\ client'[p].resp.status \in {StatusNoContent, StatusGone})
          => /\ PendingRequest[poll[p].session] = Nil
             /\ PendingRequest'[poll[p].session] = Nil]_vars

\* C9 witness: a poll whose body carried the reply to the pending originator
\* has been answered 204 or 410.
C9_Witness ==
    \E p \in Clients : \E c \in Calls :
        /\ client[p].pc = "response"
        /\ client[p].resp.status \in {StatusNoContent, StatusGone}
        /\ rt[c].session = client[p].resp.xSession
        /\ rt[c].pc = "done" /\ rt[c].resp.err = ErrNone

\* C10: a poll answered 400 because its body did not decode leaves the
\* PendingRequest slot empty when the handler returns, and the session stays
\* usable: no later poll on it hangs in the response drain, sending to an
\* originator that has already returned.
C10_DecodeErrorClearsPending ==
    /\ [][\A p \in Clients :
             (poll[p].pc = "drain" /\ Answered(p)
                /\ client'[p].resp.status = StatusBadRequest)
             => PendingRequest'[poll[p].session] = Nil]_vars
    /\ [](\A p \in Clients :
             poll[p].pc = "drain" => rt[PendingRequest[poll[p].session]].pc = "recv")

====
